---------------------------- MODULE Spec2Model ----------------------------
(***************************************************************************)
(* A model of QConfigList (src/QConfigList.py): a QWidget holding a        *)
(* QGridLayout of rows of n widgets, an add ('+') and a remove ('-')       *)
(* button, and a QTimer that polls the widgets' contents.                  *)
(*                                                                         *)
(* The QGridLayout is modelled by what the code uses of it:                *)
(*   - things    : the item list (addWidget appends, removeWidget deletes  *)
(*                 and shifts the later items down); itemAt, indexOf and   *)
(*                 count work on it, itemAtPosition and getItemPosition    *)
(*                 on the (row, col) each item carries;                    *)
(*   - rowCount  : 1 for a new layout, raised by addWidget and             *)
(*                 setRowStretch, never lowered by removeWidget;           *)
(*   - rStretch  : the stretch factor of each row, 0 unless set.           *)
(* A widget is identified by the grid cell it was created for (a cell is   *)
(* used once, since rowCount never decreases).  Its content (what the      *)
(* content function returns) is a number, 0 being the empty, falsy one.    *)
(***************************************************************************)
EXTENDS Integers, Sequences, FiniteSets, TLC

\* ------------------------------------------------------------------ bounds
\* Columns per row are drawn from 1..MaxN.
MaxN == 2
\* Add presses are accepted until MaxAdds rows have been added.
MaxAdds == 3
\* ... and while the new row keeps the row widgets in the layout within MaxCells.
MaxCells == 4
\* Contents are drawn from 0..MaxVal.
MaxVal == 1
\* max_rows, when given, is drawn from 1..MaxMaxRows.
MaxMaxRows == 2
\* initial, when given, has at most MaxInitial rows.
MaxInitial == 2

Values == 0 .. MaxVal
\* The empty content, the one that is not truthy
Empty == 0
\* The content of a widget the default row_widgets make ("Column X")
DefaultContent == 1

\* Optional[...] arguments: None, or a one-element tuple holding the value.
None == << >>
Some(x) == << x >>

VARIABLES
    config,            \* the constructor's arguments, as __init__ stores them
    things,            \* QGridLayout: the items, in insertion order
    rowCount,          \* QGridLayout.rowCount()
    rStretch,          \* QGridLayout.rowStretch(i), at index i + 1
    text,              \* widget -> its content
    styleSheet,        \* widget -> its stylesheet
    selected_row,      \* self._selected_row
    add_disabled,      \* not self._add_button.isEnabled()
    remove_disabled,   \* not self._remove_button.isEnabled()
    widgets_content,   \* self._widgets_content, the poll's snapshot
    timer_active,      \* self._timer.isActive()
    calls,             \* the callback invocations of the last operation
    raised,            \* the last operation ended by raising
    lastOp,            \* the last operation
    edited,            \* a content changed since the last poll
    pressed,           \* the grid row of the cell the last operation pressed, or -1
    baseline           \* widget -> its content when created or last polled

vars == << config, things, rowCount, rStretch, text, styleSheet, selected_row,
           add_disabled, remove_disabled, widgets_content, timer_active,
           calls, raised, lastOp, edited, pressed, baseline >>

\* The part of the state the handlers read and write, as one record.
Self ==
    [ things |-> things, rowCount |-> rowCount, rStretch |-> rStretch,
      text |-> text, styleSheet |-> styleSheet, selected_row |-> selected_row,
      add_disabled |-> add_disabled, remove_disabled |-> remove_disabled,
      widgets_content |-> widgets_content, callback |-> config.callback,
      calls |-> calls, raised |-> raised ]

\* ----------------------------------------------------------- sequence help
Range(f) == { f[x] : x \in DOMAIN f }

\* range(a, b) as a tuple
RangeSeq(a, b) == [ k \in 1 .. (IF b > a THEN b - a ELSE 0) |-> a + k - 1 ]

\* f with the keys of g added
Extend(f, g) == [ x \in DOMAIN f \cup DOMAIN g |-> IF x \in DOMAIN g THEN g[x] ELSE f[x] ]

\* ------------------------------------------------------------ QGridLayout
\* The widget created for the cell (row, col)
WidgetId(row, col) == row * config.n + col

count(s) == Len(s.things)

\* itemAt(i).widget(), i counted from 0
itemAt(s, i) == s.things[i + 1].id

rowStretch(s, i) == s.rStretch[i + 1]

ItemsAtPosition(s, i, j) ==
    { k \in 1 .. Len(s.things) : s.things[k].row = i /\ s.things[k].col = j }

\* itemAtPosition(i, j) is not None
HasItemAtPosition(s, i, j) == ItemsAtPosition(s, i, j) # {}

\* itemAtPosition(i, j).widget(): the first such item of the list
itemAtPosition(s, i, j) ==
    s.things[CHOOSE k \in ItemsAtPosition(s, i, j) : \A m \in ItemsAtPosition(s, i, j) : k <= m].id

\* indexOf(widget), counted from 0
indexOf(s, w) == (CHOOSE k \in 1 .. Len(s.things) : s.things[k].id = w) - 1

\* setRowStretch(row, stretch): the layout grows to hold the row
setRowStretch(s, row, stretch) ==
    LET rc == IF row + 1 > s.rowCount THEN row + 1 ELSE s.rowCount
    IN  [ s EXCEPT !.rowCount = rc,
                   !.rStretch = [ k \in 1 .. rc |->
                                    IF k = row + 1 THEN stretch
                                    ELSE IF k <= Len(s.rStretch) THEN s.rStretch[k]
                                    ELSE 0 ] ]

\* addWidget(widget, row, col) for each widget of ws, columns 0, 1, ...
addWidgets(s, ws, row) ==
    LET rc == IF Len(ws) > 0 /\ row + 1 > s.rowCount THEN row + 1 ELSE s.rowCount
    IN  [ s EXCEPT !.things = s.things \o
                        [ k \in 1 .. Len(ws) |-> [ id |-> ws[k], row |-> row, col |-> k - 1 ] ],
                   !.rowCount = rc,
                   !.rStretch = [ k \in 1 .. rc |->
                                    IF k <= Len(s.rStretch) THEN s.rStretch[k] ELSE 0 ] ]

\* removeWidget(itemAt(i).widget()) and deleteLater()
removeItemAt(s, i) ==
    LET w == itemAt(s, i)
    IN  [ s EXCEPT !.things = [ k \in 1 .. Len(s.things) - 1 |->
                                  IF k < i + 1 THEN s.things[k] ELSE s.things[k + 1] ],
                   !.text = [ x \in DOMAIN s.text \ {w} |-> s.text[x] ],
                   !.styleSheet = [ x \in DOMAIN s.styleSheet \ {w} |-> s.styleSheet[x] ] ]

\* ------------------------------------------------------- pseudo getters
Offset == IF config.header THEN 2 ELSE 1

FirstRowIndex == IF config.header THEN config.n ELSE 0

content_function(s, w) == s.text[w]

\* The widgets found in the columns cols of the grid row i
widgetsOfRow(s, i, cols) == [ c \in 1 .. Len(cols) |-> itemAtPosition(s, i, cols[c]) ]

\* The tuples of the grid rows rows
widgetsOfRows(s, rows) ==
    [ r \in 1 .. Len(rows) |->
        widgetsOfRow(s, rows[r],
            SelectSeq(RangeSeq(0, config.n), LAMBDA j : HasItemAtPosition(s, rows[r], j))) ]

\* A faulty widgets property, which forgets the test of the row's stretch:
\* C11 fails of it.
widgets_any_stretch(s) == widgetsOfRows(s, RangeSeq(Offset, s.rowCount))

\* The widgets property: the rows with a stretch, each the tuple of the
\* widgets found in its columns.
widgets(s) ==
    widgetsOfRows(s, SelectSeq(RangeSeq(Offset, s.rowCount), LAMBDA i : rowStretch(s, i) # 0))

\* The contents of the widgets of ws, row by row
contentsOf(s, ws) ==
    [ r \in 1 .. Len(ws) |-> [ c \in 1 .. Len(ws[r]) |-> content_function(s, ws[r][c]) ] ]

\* The widgets_content property
widgets_content_of(s) == contentsOf(s, widgets(s))

\* ------------------------------------------------------------ stylesheets
\* A row widget's stylesheet, by the declarations the code writes in it.
UnselectedStyleSheet(valid) ==
    [ color |-> IF valid THEN "color" ELSE "invalid-color",
      background |-> "",
      border |-> IF valid THEN "white" ELSE "invalid-color" ]

SelectedStyleSheet(valid) ==
    [ color |-> IF valid THEN "color" ELSE "invalid-color",
      background |-> "selected-background-color",
      border |-> IF valid THEN "white" ELSE "invalid-color" ]

HeaderStyleSheet == [ color |-> "color", background |-> "", border |-> "white" ]

\* setStyleSheet(sheet) on each widget of the set ws
setStyleSheets(s, ws, sheet) ==
    [ s EXCEPT !.styleSheet = [ w \in DOMAIN s.styleSheet \cup ws |->
          IF w \in ws THEN sheet ELSE s.styleSheet[w] ] ]

\* _set_grid_layout_widget_unselected_stylesheet, for each widget of ws
set_unselected(s, ws, valid) == setStyleSheets(s, Range(ws), UnselectedStyleSheet(valid))

\* _set_grid_layout_widget_selected_stylesheet, for each widget of ws
set_selected(s, ws, valid) == setStyleSheets(s, Range(ws), SelectedStyleSheet(valid))

\* --------------------------------------------------------------- validity
\* The caller's validity function, one of two samples: the default one
\* (always True) and one that wants every cell of the row non-empty.
user_validity_function(s, args) ==
    \/ config.validity_function = "default"
    \/ \A k \in 1 .. Len(args) : content_function(s, args[k]) # Empty

\* A faulty wrapper, which forgets that the row's own widget is no
\* duplicate of itself: C17 fails of it.
hasDuplicate_of_itself(s, args, rows) ==
    \E column \in config.no_duplicates : \E r \in 1 .. Len(rows) :
        content_function(s, args[column]) = content_function(s, rows[r][column])

\* The wrapper's loops: some column of no_duplicates holds, in a row of
\* rows, another widget with the content of the row's widget
hasDuplicate(s, args, rows) ==
    \E column \in config.no_duplicates : \E r \in 1 .. Len(rows) :
        /\ args[column] # rows[r][column]
        /\ content_function(s, args[column]) = content_function(s, rows[r][column])

\* self._validity_function: with no_duplicates, the wrapper of __init__
validity_function(s, args) ==
    /\ config.no_duplicates = {} \/ ~ hasDuplicate(s, args, widgets(s))
    /\ user_validity_function(s, args)

\* ------------------------------------------------------- empty rows, cells
_any_empty_rows(s) ==
    \E i \in Offset .. s.rowCount - 1 :
        /\ rowStretch(s, i) # 0
        /\ ~ \E j \in 0 .. config.n - 1 :
                /\ HasItemAtPosition(s, i, j)
                /\ content_function(s, itemAtPosition(s, i, j)) # Empty

_any_empty_cell(s) ==
    \E i \in Offset .. s.rowCount - 1 :
        /\ rowStretch(s, i) # 0
        /\ \E j \in 0 .. config.n - 1 :
                /\ HasItemAtPosition(s, i, j)
                /\ content_function(s, itemAtPosition(s, i, j)) = Empty

\* ------------------------------------------------------------- low level
\* self._widget_edited_callback(action, *args).  With no callback the call
\* raises TypeError ('NoneType' object is not callable).  row is the grid
\* row the contents were read from (kept to tell the invocations apart).
widget_edited_callback(s, action, row, args) ==
    IF s.callback
    THEN [ s EXCEPT !.calls = Append(s.calls, [ action |-> action, row |-> row, args |-> args ]) ]
    ELSE [ s EXCEPT !.raised = TRUE ]

\* self._add_button.setDisabled(b) when cond holds
setAddDisabledIf(s, cond, b) == IF cond THEN [ s EXCEPT !.add_disabled = b ] ELSE s

\* "If the maximum number of rows is reached, disable the add button"
disableAtMaxRows(s, row_number) ==
    setAddDisabledIf(s,
        /\ config.max_rows # None
        /\ row_number - (IF config.header THEN 1 ELSE 0) = config.max_rows[1],
        TRUE)

\* The only_one_empty_row and only_one_empty_cell checks of an add
disableOnEmpty(s) ==
    setAddDisabledIf(
        setAddDisabledIf(s, config.only_one_empty_row /\ _any_empty_rows(s), TRUE),
        config.only_one_empty_cell /\ _any_empty_cell(s), TRUE)

\* _add_grid_layout_widgets(*ws, no_stretch)
_add_grid_layout_widgets(s, ws, no_stretch) ==
    disableOnEmpty(
        setRowStretch(disableAtMaxRows(addWidgets(s, ws, s.rowCount), s.rowCount),
                      s.rowCount, IF no_stretch THEN 0 ELSE 1))

\* _unselect_row
_unselect_row(s) == [ s EXCEPT !.selected_row = -1, !.remove_disabled = TRUE ]

\* _select_row(row_number)
_select_row(s, row_number) ==
    [ s EXCEPT !.selected_row = row_number, !.remove_disabled = FALSE ]

\* The n widgets itemAt(i), ..., itemAt(i + n - 1)
itemsFrom(s, i) == [ k \in 1 .. config.n |-> itemAt(s, i + k - 1) ]

\* The contents of those widgets
contentsFrom(s, i) == [ k \in 1 .. config.n |-> content_function(s, itemAt(s, i + k - 1)) ]

\* ------------------------------------------------------------ the add slot
\* The widgets the row_widgets factories make for the next row
newWidgets(s) == [ k \in 1 .. config.n |-> WidgetId(s.rowCount, k - 1) ]

\* ... created, with the content the factories give them
createWidgets(s, ws) ==
    [ s EXCEPT !.text = Extend(s.text, [ w \in Range(ws) |-> config.row_widgets ]) ]

\* ... and styled unselected, by the validity of the row
styleNewWidgets(s, ws) == set_unselected(s, ws, validity_function(s, ws))

\* A faulty callback of an add, with the contents of the first data row:
\* C12 fails of it.
callbackAdd_first_row(s) ==
    widget_edited_callback(s, "ADD", s.things[count(s)].row, contentsFrom(s, FirstRowIndex))

\* The callback of an add: the contents of the last n items
callbackAdd(s) ==
    widget_edited_callback(s, "ADD", s.things[count(s)].row, contentsFrom(s, count(s) - config.n))

\* A faulty add slot, which adds the row with no stretch: C10 fails of it.
_add_grid_layout_row_no_stretch(s) ==
    callbackAdd(
        _add_grid_layout_widgets(
            styleNewWidgets(createWidgets(s, newWidgets(s)), newWidgets(s)),
            newWidgets(s), TRUE))

\* _add_grid_layout_row: the add button's slot
_add_grid_layout_row(s) ==
    callbackAdd(
        _add_grid_layout_widgets(
            styleNewWidgets(createWidgets(s, newWidgets(s)), newWidgets(s)),
            newWidgets(s), FALSE))

\* --------------------------------------------------------- the remove slot
\* The loop "for _ in range(i, i + n): removeWidget(itemAt(i).widget())"
RECURSIVE removeItems(_, _, _)
removeItems(s, i, times) ==
    IF times = 0 THEN s ELSE removeItems(removeItemAt(s, i), i, times - 1)

\* The add button enabled again after a removal
enableAfterRemove(s) ==
    setAddDisabledIf(
        setAddDisabledIf(s, ~ config.only_one_empty_row \/ ~ _any_empty_rows(s), FALSE),
        ~ config.only_one_empty_cell \/ ~ _any_empty_cell(s), FALSE)

\* What follows the callback of a removal, unless it raised
removeAfterCallback(s, i) ==
    IF s.raised THEN s
    ELSE enableAfterRemove(_unselect_row(removeItems(s, i, config.n)))

\* The removal of the items i, ..., i + n - 1
removeFrom(s, i) ==
    removeAfterCallback(
        widget_edited_callback(setRowStretch(s, s.things[i + 1].row, 0),
                               "REMOVE", s.things[i + 1].row, contentsFrom(s, i)),
        i)

\* A faulty remove slot, which removes the first row whichever row is
\* selected: C8 fails of it.
_remove_grid_layout_first_row(s) ==
    IF s.selected_row = -1 THEN s ELSE removeFrom(s, FirstRowIndex)

\* A faulty remove slot, which returns early only after it has unselected
\* and enabled the add button: C9 fails of it.
_remove_grid_layout_late_return(s) ==
    IF s.selected_row = -1 THEN enableAfterRemove(_unselect_row(s))
    ELSE removeFrom(s, config.n * s.selected_row)

\* _remove_grid_layout_selected_row: the remove button's slot
_remove_grid_layout_selected_row(s) ==
    IF s.selected_row = -1 THEN s ELSE removeFrom(s, config.n * s.selected_row)

\* ------------------------------------------------------------ mouse press
\* The first items of the rows of the item list, headers excluded
rowStarts(s) == { i \in FirstRowIndex .. count(s) - 1 : (i - FirstRowIndex) % config.n = 0 }

\* The loop of _widget_clicked: every row of the item list restyled as
\* unselected.  The validity of a row reads contents only, which the loop
\* leaves alone, so the rows are restyled independently.
unselectAll(s) ==
    [ s EXCEPT !.styleSheet = [ w \in DOMAIN s.styleSheet |->
        IF \E i \in rowStarts(s) : w \in Range(itemsFrom(s, i))
        THEN UnselectedStyleSheet(validity_function(s,
                 itemsFrom(s, CHOOSE i \in rowStarts(s) : w \in Range(itemsFrom(s, i)))))
        ELSE s.styleSheet[w] ] ]

\* The row of the items row_nbr, ... styled selected and made the selected row
selectFrom(s, row_nbr) ==
    _select_row(
        set_selected(s, itemsFrom(s, row_nbr), validity_function(s, itemsFrom(s, row_nbr))),
        row_nbr \div config.n)

\* A faulty _widget_clicked, which unselects nothing before it selects the
\* clicked row: C13 fails of it.
_widget_clicked_no_unselect(s, widget) ==
    selectFrom(s, config.n * (indexOf(s, widget) \div config.n))

\* _widget_clicked(widget)
_widget_clicked(s, widget) ==
    selectFrom(unselectAll(s), config.n * (indexOf(s, widget) \div config.n))

\* The add button enabled again after an interaction
enableAfterInteraction(s) ==
    setAddDisabledIf(
        setAddDisabledIf(s, config.only_one_empty_row /\ ~ _any_empty_rows(s), FALSE),
        config.only_one_empty_cell /\ ~ _any_empty_cell(s), FALSE)

\* The last step of _widget_interacted: the row ws restyled as selected
restyleSelected(s, ws) == set_selected(s, ws, validity_function(s, ws))

\* _widget_interacted(widget): a mouse press on the widget, or the poll
\* finding its content changed
_widget_interacted(s, widget) ==
    restyleSelected(enableAfterInteraction(_widget_clicked(s, widget)),
                    itemsFrom(s, config.n * (indexOf(s, widget) \div config.n)))

\* ---------------------------------------------------------------- the poll
\* seq[idx] as Python indexes a list: from the end when idx is negative,
\* IndexError when out of range.
PyIndexError(seq, idx) == idx >= Len(seq) \/ idx < 0 - Len(seq)

PyAt(seq, idx) == IF idx >= 0 THEN seq[idx + 1] ELSE seq[Len(seq) + idx + 1]

\* The comparison of the poll for the cell (i, j) raises IndexError
snapshotMissing(s, i, j) ==
    \/ PyIndexError(s.widgets_content, i - Offset)
    \/ PyIndexError(PyAt(s.widgets_content, i - Offset), j)

\* The callback of an edit, if there is a callback: the contents of row i
callbackEdit(s, i) ==
    IF s.callback
    THEN widget_edited_callback(s, "EDIT", i,
             [ k \in 1 .. config.n |-> content_function(s, itemAtPosition(s, i, k - 1)) ])
    ELSE s

\* The body of the poll's loops for the cell (i, j)
checkCell(s, i, j) ==
    IF rowStretch(s, i) = 0 \/ ~ HasItemAtPosition(s, i, j) THEN s
    ELSE IF snapshotMissing(s, i, j) THEN s
    ELSE IF content_function(s, itemAtPosition(s, i, j))
                = PyAt(PyAt(s.widgets_content, i - Offset), j) THEN s
    ELSE callbackEdit(_widget_interacted(s, itemAtPosition(s, i, j)), i)

\* The poll's loops, from the cell numbered k (row k \div n, column k % n) on
RECURSIVE checkCellsFrom(_, _)
checkCellsFrom(s, k) ==
    IF k >= s.rowCount * config.n THEN s
    ELSE checkCellsFrom(checkCell(s, k \div config.n, k % config.n), k + 1)

\* "Update the widgets_content attribute"
updateWidgetsContent(s) == [ s EXCEPT !.widgets_content = widgets_content_of(s) ]

\* _check_modified_widgets: the timer's slot
_check_modified_widgets(s) == updateWidgetsContent(checkCellsFrom(s, 0))

\* is_valid: no row's first widget has the invalid colour in its stylesheet
is_valid(s) ==
    \A i \in rowStarts(s) : s.styleSheet[itemAt(s, i)].color # "invalid-color"

\* ------------------------------------------------------------ construction
\* The constructor's arguments the model draws from, after the defaults of
\* __init__ (only_one_empty_cell wins over only_one_empty_row).
Configs ==
    { c \in [ n : 1 .. MaxN, header : BOOLEAN, max_rows : {None} \cup { Some(m) : m \in 1 .. MaxMaxRows },
              no_duplicates : SUBSET (1 .. MaxN), row_widgets : Values,
              validity_function : {"default", "nonempty"}, callback : BOOLEAN,
              only_one_empty_row : BOOLEAN, only_one_empty_cell : BOOLEAN ] :
        /\ c.no_duplicates \subseteq 1 .. c.n
        /\ ~ (c.only_one_empty_row /\ c.only_one_empty_cell) }

\* The layout and the attributes before _init_ui
Blank ==
    [ things |-> << >>, rowCount |-> 1, rStretch |-> << 0 >>,
      text |-> << >>, styleSheet |-> << >>, selected_row |-> -1,
      add_disabled |-> FALSE, remove_disabled |-> TRUE,
      widgets_content |-> << >>, callback |-> config.callback,
      calls |-> << >>, raised |-> FALSE ]

\* The header labels, created and styled
createHeaders(s, labels) ==
    [ s EXCEPT !.styleSheet = Extend(s.styleSheet, [ w \in Range(labels) |-> HeaderStyleSheet ]) ]

\* _add_grid_layout_headers, as _init_ui calls it
_add_grid_layout_headers(s) ==
    _add_grid_layout_widgets(createHeaders(s, newWidgets(s)), newWidgets(s), TRUE)

\* The state __init__ leaves (initial is None)
Constructed == IF config.header THEN _add_grid_layout_headers(Blank) ELSE Blank

\* The handlers' state s written to the variables; b is the new baseline
Install(s, b) ==
    /\ things' = s.things
    /\ rowCount' = s.rowCount
    /\ rStretch' = s.rStretch
    /\ text' = s.text
    /\ styleSheet' = s.styleSheet
    /\ selected_row' = s.selected_row
    /\ add_disabled' = s.add_disabled
    /\ remove_disabled' = s.remove_disabled
    /\ widgets_content' = s.widgets_content
    /\ calls' = s.calls
    /\ raised' = s.raised
    /\ baseline' = [ w \in DOMAIN s.text |-> IF w \in DOMAIN b THEN b[w] ELSE s.text[w] ]

\* A handler starts with no callback invoked and nothing raised
Entry == [ Self EXCEPT !.calls = << >>, !.raised = FALSE ]

\* The widgets of the data rows (the items after the headers)
DataWidgets == { things[k].id : k \in FirstRowIndex + 1 .. Len(things) }

\* The state s as the initial state
InitialState(s) ==
    /\ things = s.things
    /\ rowCount = s.rowCount
    /\ rStretch = s.rStretch
    /\ text = s.text
    /\ styleSheet = s.styleSheet
    /\ selected_row = s.selected_row
    /\ add_disabled = s.add_disabled
    /\ remove_disabled = s.remove_disabled
    /\ widgets_content = s.widgets_content
    /\ calls = << >>
    /\ raised = FALSE
    /\ timer_active = TRUE
    /\ lastOp = "init"
    /\ edited = FALSE
    /\ pressed = -1
    /\ baseline = s.text

\* The arguments left at their defaults, but n, the headers and a callback
PlainConfigs ==
    { c \in Configs :
        /\ c.max_rows = None /\ c.no_duplicates = {} /\ c.row_widgets = DefaultContent
        /\ c.validity_function = "default" /\ c.callback
        /\ ~ c.only_one_empty_row /\ ~ c.only_one_empty_cell }

\* ... with max_rows given
MaxRowsConfigs ==
    { c \in Configs :
        /\ c.max_rows # None /\ c.no_duplicates = {} /\ c.row_widgets = DefaultContent
        /\ c.validity_function = "default" /\ c.callback
        /\ ~ c.only_one_empty_row /\ ~ c.only_one_empty_cell }

\* ... with only_one_empty_row, the row widgets made empty or not
EmptyConfigs ==
    { c \in Configs :
        /\ c.max_rows = None /\ c.no_duplicates = {}
        /\ c.row_widgets \in {Empty, DefaultContent}
        /\ c.validity_function = "default" /\ c.callback
        /\ c.only_one_empty_row /\ ~ c.only_one_empty_cell }

\* ... with or without a callback
CallbackConfigs ==
    { c \in Configs :
        /\ c.max_rows = None /\ c.no_duplicates = {} /\ c.row_widgets = DefaultContent
        /\ c.validity_function = "default"
        /\ ~ c.only_one_empty_row /\ ~ c.only_one_empty_cell }

\* ... with a validity function and no_duplicates
ValidityConfigs ==
    { c \in Configs :
        /\ c.max_rows = None /\ c.row_widgets = DefaultContent /\ c.callback
        /\ c.validity_function = "nonempty" /\ c.no_duplicates \subseteq {1}
        /\ ~ c.only_one_empty_row /\ ~ c.only_one_empty_cell }

Init == config \in PlainConfigs /\ InitialState(Constructed)

InitMaxRows == config \in MaxRowsConfigs /\ InitialState(Constructed)

InitEmpty == config \in EmptyConfigs /\ InitialState(Constructed)

InitCallback == config \in CallbackConfigs /\ InitialState(Constructed)

InitValidity == config \in ValidityConfigs /\ InitialState(Constructed)

\* ----------------------------------------------------------------- actions
\* The add button is pressed (it is enabled)
AddPress ==
    /\ ~ add_disabled
    /\ rowCount - Offset < MaxAdds
    /\ Cardinality(DataWidgets) + config.n <= MaxCells
    /\ Install(_add_grid_layout_row(Entry), baseline)
    /\ lastOp' = "add"
    /\ pressed' = -1
    /\ UNCHANGED << config, timer_active, edited >>

\* The remove button's slot runs, with a row selected or with none
RemovePress ==
    /\ Install(_remove_grid_layout_selected_row(Entry), baseline)
    /\ lastOp' = IF selected_row = -1 THEN "remove_none" ELSE "remove"
    /\ pressed' = -1
    /\ UNCHANGED << config, timer_active, edited >>

\* A mouse press on a row widget (eventFilter)
Click ==
    /\ \E w \in DataWidgets :
          /\ Install(_widget_interacted(Entry, w), baseline)
          /\ pressed' = things[indexOf(Self, w) + 1].row
    /\ lastOp' = "click"
    /\ UNCHANGED << config, timer_active, edited >>

\* The timer fires
Poll ==
    /\ timer_active
    /\ Install(_check_modified_widgets(Entry), text)
    /\ lastOp' = "poll"
    /\ edited' = FALSE
    /\ pressed' = -1
    /\ UNCHANGED << config, timer_active >>

\* The user (or the program) changes the content of a row widget
Edit ==
    /\ \E w \in DataWidgets : \E v \in Values \ {text[w]} :
          text' = [ text EXCEPT ![w] = v ]
    /\ calls' = << >>
    /\ raised' = FALSE
    /\ lastOp' = "edit"
    /\ edited' = TRUE
    /\ pressed' = -1
    /\ UNCHANGED << config, things, rowCount, rStretch, styleSheet, selected_row,
                    add_disabled, remove_disabled, widgets_content, timer_active, baseline >>

Next == AddPress \/ RemovePress \/ Click \/ Poll \/ Edit

Spec == Init /\ [][Next]_vars

SpecMaxRows == InitMaxRows /\ [][Next]_vars

SpecEmpty == InitEmpty /\ [][Next]_vars

SpecCallback == InitCallback /\ [][Next]_vars

SpecValidity == InitValidity /\ [][Next]_vars

\* ------------------------------------------------------------ closeEvent
\* A faulty closeEvent, which leaves the timer running: C19 fails of it.
closeEvent_timer_running ==
    /\ calls' = << >>
    /\ raised' = FALSE
    /\ lastOp' = "close"
    /\ pressed' = -1
    /\ UNCHANGED << config, things, rowCount, rStretch, text, styleSheet, selected_row,
                    add_disabled, remove_disabled, widgets_content, timer_active,
                    edited, baseline >>

\* closeEvent(event): the widget gets closed, the timer is stopped
closeEvent ==
    /\ timer_active' = FALSE
    /\ calls' = << >>
    /\ raised' = FALSE
    /\ lastOp' = "close"
    /\ pressed' = -1
    /\ UNCHANGED << config, things, rowCount, rStretch, text, styleSheet, selected_row,
                    add_disabled, remove_disabled, widgets_content, edited, baseline >>

\* The arguments left at their defaults, but n and a callback
CloseConfigs == { c \in PlainConfigs : ~ c.header }

InitClose == config \in CloseConfigs /\ InitialState(Constructed)

\* The operations of a widget that may get closed
NextClose == Next \/ closeEvent

SpecClose == InitClose /\ [][NextClose]_vars

\* --------------------------------------------------------- the constructor
\* The arguments of __init__ the model draws.  header_texts and row_widgets
\* are given by their length, a row of initial by the contents of its
\* widgets (all the same in a row), the other arguments are left at their
\* defaults, with a callback.
InitialRowsDrawn ==
    { [ c \in 1 .. len |-> v ] : len \in 1 .. MaxN, v \in Values }

InitialsDrawn ==
    UNION { [ 1 .. k -> InitialRowsDrawn ] : k \in 0 .. MaxInitial }

AllArguments ==
    [ n : {None} \cup { Some(k) : k \in -1 .. MaxN },
      max_rows : {None} \cup { Some(m) : m \in -1 .. MaxMaxRows },
      header_texts : {None} \cup { Some(len) : len \in 0 .. MaxN },
      row_widgets : {None} \cup { Some(len) : len \in 0 .. MaxN },
      initial : {None} \cup { Some(rows) : rows \in InitialsDrawn },
      no_verif : BOOLEAN ]

\* "Set default arguments": n after lines 243-247, None when it stays None
n_after_defaults(a) ==
    IF a.n # None THEN a.n
    ELSE IF a.header_texts # None THEN a.header_texts
    ELSE IF a.row_widgets # None THEN a.row_widgets
    ELSE None

\* "if n > 1" on a None n raises TypeError ('>' not supported between
\* instances of 'NoneType' and 'int')
RaisesTypeError(a) == a.row_widgets = None /\ n_after_defaults(a) = None

\* len(row_widgets) after the defaults
len_row_widgets(a) ==
    IF a.row_widgets # None THEN a.row_widgets[1]
    ELSE IF n_after_defaults(a)[1] > 1 THEN n_after_defaults(a)[1] ELSE 1

\* The checks of initial raise ValueError, n being the column count
InitialRejected(initial, n, max_rows) ==
    \/ Len(initial) = 0
    \/ \E i \in 1 .. Len(initial) :
          Len(initial[i]) # Len(initial[IF i = 1 THEN Len(initial) ELSE i - 1])
    \/ Len(initial[1]) # n
    \/ max_rows # None /\ Len(initial) > max_rows[1]

\* "Ensure the validity of the provided arguments" raises ValueError
ArgumentsRejected(a, n) ==
    \/ n < 0
    \/ n = 0
    \/ a.max_rows # None /\ a.max_rows[1] < 0
    \/ a.max_rows # None /\ a.max_rows[1] = 0
    \/ a.header_texts # None /\ a.header_texts[1] # n
    \/ len_row_widgets(a) # n
    \/ a.initial # None /\ InitialRejected(a.initial[1], n, a.max_rows)

RaisesValueError(a) ==
    ~ RaisesTypeError(a) /\ ~ a.no_verif /\ ArgumentsRejected(a, n_after_defaults(a)[1])

\* With no_verif the caller answers for the arguments: only arguments the
\* checks would accept are drawn with it.
Arguments ==
    { a \in AllArguments :
        a.no_verif => (RaisesTypeError(a) \/ ~ ArgumentsRejected(a, n_after_defaults(a)[1])) }

\* "Set the straight-forward attributes": what __init__ stores of the
\* arguments a, once it got through the defaults and the checks
Stored(a) ==
    [ n |-> IF n_after_defaults(a) = None THEN None ELSE n_after_defaults(a)[1], header |-> a.header_texts # None,
      max_rows |-> a.max_rows, no_duplicates |-> {}, row_widgets |-> DefaultContent,
      validity_function |-> "default", callback |-> TRUE,
      only_one_empty_row |-> FALSE, only_one_empty_cell |-> FALSE,
      initial |-> a.initial, args |-> a ]

\* The widgets of a row of initial, which the caller made with their contents
placeWidgets(s, ws, contents) ==
    [ s EXCEPT !.text = Extend(s.text, [ w \in Range(ws) |-> contents[w - ws[1] + 1] ]) ]

\* The body of the loop of _initial_grid_layout_rows for one row
addInitialRow(s, contents) ==
    _add_grid_layout_widgets(
        styleNewWidgets(placeWidgets(s, newWidgets(s), contents), newWidgets(s)),
        newWidgets(s), FALSE)

\* The loop, from the row k of rows on
RECURSIVE addInitialRows(_, _, _)
addInitialRows(s, rows, k) ==
    IF k > Len(rows) THEN s ELSE addInitialRows(addInitialRow(s, rows[k]), rows, k + 1)

\* _initial_grid_layout_rows
_initial_grid_layout_rows(s) ==
    IF config.initial = None THEN s
    ELSE updateWidgetsContent(addInitialRows(s, config.initial[1], 1))

\* What __init__ builds from the stored attributes: _init_ui, then the rows
\* of initial
Built == _initial_grid_layout_rows(Constructed)

\* Before the constructor runs there is no layout, no button and no timer
NotConstructed ==
    /\ things = << >> /\ rowCount = 0 /\ rStretch = << >>
    /\ text = << >> /\ styleSheet = << >> /\ selected_row = -1
    /\ add_disabled = TRUE /\ remove_disabled = TRUE /\ widgets_content = << >>
    /\ timer_active = FALSE /\ calls = << >> /\ raised = FALSE
    /\ edited = FALSE /\ pressed = -1 /\ baseline = << >>

\* The constructor is called with the arguments config.args; config holds
\* what it stores of them if it raises nothing
InitNew == (\E a \in Arguments : config = Stored(a)) /\ lastOp = "new" /\ NotConstructed

\* QConfigList(...): the constructor raises, or stores the attributes, builds
\* the layout and starts the timer
__init__ ==
    /\ lastOp = "new"
    /\ IF RaisesTypeError(config.args) \/ RaisesValueError(config.args)
       THEN /\ lastOp' = (IF RaisesTypeError(config.args) THEN "TypeError" ELSE "ValueError")
            /\ raised' = TRUE
            /\ UNCHANGED << things, rowCount, rStretch, text, styleSheet,
                            selected_row, add_disabled, remove_disabled, widgets_content,
                            timer_active, calls, baseline >>
       ELSE /\ Install(Built, << >>)
            /\ timer_active' = TRUE
            /\ lastOp' = "init"
    /\ UNCHANGED << config, edited, pressed >>

SpecConstruct == InitNew /\ [][__init__]_vars

\* ------------------------------------------------------------------ claims
\* The number of data rows: the rows the widgets property returns
NumRows == Len(widgets(Self))

\* Some data row has no cell with a non-empty content
SomeRowEmpty ==
    \E r \in 1 .. Len(widgets(Self)) :
        \A c \in 1 .. Len(widgets(Self)[r]) : text[widgets(Self)[r][c]] = Empty

\* C1: with max_rows given, the number of data rows (headers excluded) is at
\* most max_rows in every reachable state.
C1_RowsWithinMaxRows == config.max_rows # None => NumRows <= config.max_rows[1]

\* C2: with max_rows given, no empty-row policy and a callback, after every
\* completed add or remove the add button is disabled if and only if the
\* number of data rows equals max_rows.
C2_AddDisabledIffMaxRows ==
    ( /\ config.max_rows # None
      /\ ~ config.only_one_empty_row /\ ~ config.only_one_empty_cell
      /\ config.callback
      /\ lastOp \in {"add", "remove"} )
    => (add_disabled <=> NumRows = config.max_rows[1])

\* C3: with only_one_empty_row (and not only_one_empty_cell), after an add, a
\* remove, a click or a poll, the add button is disabled if some data row has
\* no cell with a non-empty content.
C3_EmptyRowDisablesAdd ==
    ( /\ config.only_one_empty_row /\ ~ config.only_one_empty_cell
      /\ lastOp \in {"add", "remove", "click", "poll"}
      /\ SomeRowEmpty )
    => add_disabled

\* The grid row of the widget w
rowOfWidget(w) == things[indexOf(Self, w) + 1].row

\* The row r of the widgets property has a cell whose content is not the one
\* it had when the row was created or last polled
RowChanged(r) ==
    \E c \in 1 .. Len(widgets(Self)[r]) :
        text[widgets(Self)[r][c]] # baseline[widgets(Self)[r][c]]

\* C4: a poll raises an EDIT event for a row only if the content of a cell of
\* that row differs from the row's content at the previous poll.
C4_EditOnlyIfRowChanged ==
    [][ lastOp' = "poll" =>
          \A k \in 1 .. Len(calls') :
              calls'[k].action = "EDIT" =>
                  \E j \in 0 .. config.n - 1 :
                      /\ HasItemAtPosition(Self, calls'[k].row, j)
                      /\ text[itemAtPosition(Self, calls'[k].row, j)]
                            # baseline[itemAtPosition(Self, calls'[k].row, j)] ]_vars

\* C5: if the content of a cell of a data row changed after the row was added
\* and the change persists until the next poll, that poll calls the callback
\* with EDIT and the current contents of the cells of that row.
C5_ChangedRowRaisesEdit ==
    [][ (lastOp' = "poll" /\ config.callback) =>
          \A r \in 1 .. NumRows :
              RowChanged(r) =>
                  \E k \in 1 .. Len(calls') :
                      /\ calls'[k].action = "EDIT"
                      /\ calls'[k].row = rowOfWidget(widgets(Self)[r][1])
                      /\ calls'[k].args = widgets_content_of(Self)[r] ]_vars

\* What an operation leaves of the rows, the selection and the buttons
Visible(s) ==
    << s.things, s.rowCount, s.rStretch, s.text, s.styleSheet,
       s.selected_row, s.add_disabled, s.remove_disabled >>

\* The state a handler starts from, had a callback been supplied
EntryWithCallback == [ Entry EXCEPT !.callback = TRUE ]

\* C6: with no callback, an add and a remove of the selected row raise no
\* error and change the rows, the selection and the buttons as they do with a
\* callback.
C6_NoCallbackSameAsCallback ==
    [][ /\ (~ config.callback /\ lastOp' = "add") =>
              /\ ~ raised'
              /\ Visible(Self') = Visible(_add_grid_layout_row(EntryWithCallback))
        /\ (~ config.callback /\ lastOp' = "remove") =>
              /\ ~ raised'
              /\ Visible(Self') = Visible(_remove_grid_layout_selected_row(EntryWithCallback))
      ]_vars

\* The validity function holds of every data row, on its current content
AllRowsValid ==
    \A r \in 1 .. NumRows : validity_function(Self, widgets(Self)[r])

\* C7: after an add, a remove or a click, a poll having run since the last
\* content change, is_valid is True if and only if the validity function
\* (the caller's, with the no_duplicates check) holds of every data row.
C7_IsValidIffAllRowsValid ==
    (lastOp \in {"add", "remove", "click", "poll"} /\ ~ edited)
    => (is_valid(Self) <=> AllRowsValid)

\* seq without its element r
WithoutRow(seq, r) == [ k \in 1 .. Len(seq) - 1 |-> IF k < r THEN seq[k] ELSE seq[k + 1] ]

\* The row r of the widgets property is shown as the selected one
ShownSelected(r) ==
    \A c \in 1 .. Len(widgets(Self)[r]) :
        styleSheet[widgets(Self)[r][c]].background = "selected-background-color"

\* C8: a remove with row r selected (and a callback) removes exactly the n
\* cells of row r: the widgets property has one row less, and the other rows
\* keep their order, widgets and contents.
C8_RemoveRemovesSelectedRow ==
    [][ (lastOp' = "remove" /\ config.callback) =>
          \E r \in 1 .. NumRows :
              /\ ShownSelected(r)
              /\ \A q \in 1 .. NumRows : ShownSelected(q) => q = r
              /\ Len(widgets(Self)[r]) = config.n
              /\ NumRows' = NumRows - 1
              /\ widgets(Self') = WithoutRow(widgets(Self), r)
              /\ widgets_content_of(Self') = WithoutRow(widgets_content_of(Self), r)
              /\ DataWidgets' = DataWidgets \ Range(widgets(Self)[r]) ]_vars

C8_Witness ==
    /\ lastOp = "remove" /\ config.callback /\ config.n = 2 /\ config.header
    /\ Len(calls) = 1 /\ NumRows >= 1

\* C9: a remove with no row selected changes nothing (rows, contents, styles,
\* selection, buttons, snapshot) and invokes no callback.
C9_RemoveWithoutSelectionIsNoOp ==
    [][ lastOp' = "remove_none" =>
          /\ UNCHANGED << things, rowCount, rStretch, text, styleSheet, selected_row,
                          add_disabled, remove_disabled, widgets_content >>
          /\ calls' = << >>
          /\ ~ raised' ]_vars

C9_Witness == lastOp = "remove_none" /\ NumRows >= 1 /\ add_disabled /\ selected_row = -1

\* C10: an add (with a callback) appends exactly one row of n cells, made by
\* the row_widgets factories in column order, after the existing rows, which
\* keep their position, widgets, contents and selection state.
C10_AddAppendsOneRow ==
    [][ (lastOp' = "add" /\ config.callback) =>
          /\ NumRows' = NumRows + 1
          /\ SubSeq(widgets(Self'), 1, NumRows) = widgets(Self)
          /\ Len(widgets(Self')[NumRows']) = config.n
          /\ \A c \in 1 .. config.n :
                /\ widgets(Self')[NumRows'][c] \notin DOMAIN text
                /\ text'[widgets(Self')[NumRows'][c]] = config.row_widgets
                /\ things'[Len(things) + c].id = widgets(Self')[NumRows'][c]
                /\ things'[Len(things) + c].col = c - 1
                /\ things'[Len(things) + c].row >= rowCount
          /\ SubSeq(things', 1, Len(things)) = things
          /\ Len(things') = Len(things) + config.n
          /\ \A w \in DOMAIN text : text'[w] = text[w]
          /\ \A w \in DOMAIN styleSheet : styleSheet'[w] = styleSheet[w]
          /\ selected_row' = selected_row ]_vars

C10_Witness ==
    /\ lastOp = "add" /\ config.callback /\ config.n = 2
    /\ NumRows >= 2 /\ selected_row # -1

\* The data rows the layout holds: its items after the headers, in the order
\* they were added, n by n
CurrentRows ==
    [ r \in 1 .. (Len(things) - FirstRowIndex) \div config.n |->
        [ c \in 1 .. config.n |-> things[FirstRowIndex + (r - 1) * config.n + c].id ] ]

\* The header labels: the widgets of the grid rows before the data rows
HeaderWidgets == { things[k].id : k \in { m \in 1 .. Len(things) : things[m].row < Offset } }

\* C11: (with a callback) the widgets property is exactly the current data
\* rows in insertion order, each a tuple of n widgets, with no header and no
\* removed widget; widgets_content is the same list with the content
\* function applied to each cell.
C11_WidgetsAreCurrentRows ==
    config.callback =>
        /\ widgets(Self) = CurrentRows
        /\ \A r \in 1 .. NumRows :
              /\ Len(widgets(Self)[r]) = config.n
              /\ \A c \in 1 .. config.n :
                    /\ widgets(Self)[r][c] \in DOMAIN text
                    /\ widgets(Self)[r][c] \notin HeaderWidgets
        /\ widgets_content_of(Self)
              = [ r \in 1 .. Len(CurrentRows) |->
                    [ c \in 1 .. config.n |-> text[CurrentRows[r][c]] ] ]

C11_Witness ==
    /\ config.callback /\ config.header /\ lastOp = "poll"
    /\ NumRows = 1 /\ rowCount >= 5 /\ config.n = 2

\* The callback invocations of the last operation, as the callback sees them
Invocations == [ k \in 1 .. Len(calls) |-> << calls[k].action, calls[k].args >> ]

\* C12: (with a callback) an add invokes the callback once, with ADD and the
\* contents of the cells of the new row; a remove of a selected row invokes
\* it once, with REMOVE and the contents the cells of the removed row had
\* just before.
C12_AddRemoveCallbackOnce ==
    [][ /\ (config.callback /\ lastOp' = "add") =>
              Invocations' = << << "ADD", widgets_content_of(Self')[NumRows'] >> >>
        /\ (config.callback /\ lastOp' = "remove") =>
              \E r \in 1 .. NumRows :
                  /\ Range(widgets(Self)[r]) \cap DOMAIN text' = {}
                  /\ Invocations' = << << "REMOVE", widgets_content_of(Self)[r] >> >>
      ]_vars

C12_Witness ==
    /\ config.callback /\ lastOp = "remove" /\ config.n = 2 /\ NumRows = 1
    /\ Invocations = << << "REMOVE", << DefaultContent, Empty >> >> >>
    /\ widgets_content_of(Self) = << << Empty, DefaultContent >> >>

\* The row r of the widgets property is the selected row: selected_row
\* counts the rows of the layout's items, the header row included
IsSelectedRow(r) == selected_row = r - 1 + (IF config.header THEN 1 ELSE 0)

\* The cells of the rows are styled as with the row r selected: selected in
\* r, unselected elsewhere, each coloured by the validity of its row
StyledWithSelected(r) ==
    \A q \in 1 .. NumRows : \A c \in 1 .. Len(widgets(Self)[q]) :
        styleSheet[widgets(Self)[q][c]]
          = IF q = r THEN SelectedStyleSheet(validity_function(Self, widgets(Self)[q]))
                     ELSE UnselectedStyleSheet(validity_function(Self, widgets(Self)[q]))

\* C13: a mouse press on a cell of the data row r, with or without headers,
\* makes r the selected row, enables the remove button, styles the cells of
\* r selected and those of every other data row unselected, each coloured
\* valid or invalid by the validity function on its row.
C13_PressSelectsRow ==
    lastOp = "click" =>
        /\ ~ remove_disabled
        /\ \E r \in 1 .. NumRows :
              /\ \A c \in 1 .. config.n : rowOfWidget(widgets(Self)[r][c]) = pressed
              /\ IsSelectedRow(r)
              /\ StyledWithSelected(r)

C13_Witness ==
    /\ lastOp = "click" /\ config.header /\ config.n = 2 /\ NumRows = 2
    /\ config.no_duplicates = {1} /\ selected_row = 2
    /\ ~ validity_function(Self, widgets(Self)[1])
    /\ text[widgets(Self)[2][2]] = Empty /\ text[widgets(Self)[2][1]] # text[widgets(Self)[1][1]]

\* Another data row has, in a column of no_duplicates (columns counted from
\* 1), the content the row r has there
DuplicatedElsewhere(r) ==
    \E c \in config.no_duplicates : \E q \in (1 .. NumRows) \ {r} :
        text[widgets(Self)[q][c]] = text[widgets(Self)[r][c]]

\* C17: the validity function the widget uses rejects a data row if and only
\* if the caller's function rejects it or another data row has the same
\* content in a column of no_duplicates.
C17_NoDuplicatesValidity ==
    \A r \in 1 .. NumRows :
        (~ validity_function(Self, widgets(Self)[r]))
            <=> (~ user_validity_function(Self, widgets(Self)[r]) \/ DuplicatedElsewhere(r))

C17_Witness ==
    /\ config.no_duplicates = {1} /\ config.n = 2 /\ NumRows = 2
    /\ user_validity_function(Self, widgets(Self)[1])
    /\ ~ validity_function(Self, widgets(Self)[1])
    /\ text[widgets(Self)[2][2]] = Empty

\* Every cell of every data row of s is coloured valid or invalid as the
\* validity function judges its row
ColouredByValidity(s) ==
    \A r \in 1 .. Len(widgets(s)) : \A c \in 1 .. Len(widgets(s)[r]) :
        (s.styleSheet[widgets(s)[r][c]].color = "invalid-color")
            <=> ~ validity_function(s, widgets(s)[r])

\* C18: a removal leaves no stale validity colouring: if every row is
\* coloured by its validity before a row is removed, every remaining row is
\* coloured by its validity, judged on the remaining rows, after it.
C18_RemoveLeavesNoStaleColour ==
    [][ (lastOp' = "remove" /\ ColouredByValidity(Self)) => ColouredByValidity(Self') ]_vars

\* The column count the documentation of n gives for the arguments a: n,
\* else the length of header_texts, else the length of row_widgets, else 2
DocumentedN(a) ==
    IF a.n # None THEN a.n[1]
    ELSE IF a.header_texts # None THEN a.header_texts[1]
    ELSE IF a.row_widgets # None THEN a.row_widgets[1]
    ELSE 2

\* n is negative or zero, max_rows is given and negative or zero,
\* header_texts is given with a length other than n, or row_widgets is given
\* with a length other than n
BadShape(a) ==
    \/ DocumentedN(a) <= 0
    \/ a.max_rows # None /\ a.max_rows[1] <= 0
    \/ a.header_texts # None /\ a.header_texts[1] # DocumentedN(a)
    \/ a.row_widgets # None /\ a.row_widgets[1] # DocumentedN(a)

\* The constructor raised ValueError before it made the layout, the buttons
\* and the timer
ValueErrorBeforeUi == lastOp = "ValueError" /\ rowCount = 0 /\ things = << >> /\ ~ timer_active

\* C14: with no_verif False, the constructor raises ValueError when n is
\* negative or zero, max_rows is given and negative or zero, header_texts is
\* given with a length other than n or row_widgets has a length other than
\* n, and it raises it before the layout, the buttons and the timer exist.
C14_BadShapeRaisesValueError ==
    (lastOp # "new" /\ ~ config.args.no_verif /\ BadShape(config.args)) => ValueErrorBeforeUi

\* initial is empty, its rows do not all have the same length, they do not
\* have exactly n cells, or there are more of them than max_rows
BadInitial(a) ==
    \/ Len(a.initial[1]) = 0
    \/ \E i, j \in 1 .. Len(a.initial[1]) : Len(a.initial[1][i]) # Len(a.initial[1][j])
    \/ \E i \in 1 .. Len(a.initial[1]) : Len(a.initial[1][i]) # DocumentedN(a)
    \/ a.max_rows # None /\ Len(a.initial[1]) > a.max_rows[1]

\* The widget starts with exactly the rows of initial, in order
StartsWithInitial(a) ==
    /\ lastOp = "init"
    /\ NumRows = Len(a.initial[1])
    /\ widgets_content_of(Self) = a.initial[1]
    /\ widgets(Self) = CurrentRows

\* C15: with no_verif False and initial given, the constructor raises
\* ValueError when initial is empty, has rows of different lengths or of a
\* length other than n, or has more rows than max_rows; otherwise (the other
\* arguments being accepted) the widget starts with exactly the rows of
\* initial, in order.
C15_InitialCheckedThenShown ==
    (lastOp # "new" /\ ~ config.args.no_verif /\ config.args.initial # None) =>
        IF BadInitial(config.args) THEN lastOp = "ValueError"
        ELSE (~ BadShape(config.args)) => StartsWithInitial(config.args)

\* C16: when n is None the column count is the length of header_texts if
\* given, else the length of row_widgets if given, else 2: the constructor
\* raises no TypeError, a widget it constructs has that many columns, and
\* with n, header_texts and row_widgets all None (the other arguments being
\* accepted) it constructs a widget of 2 columns.
C16_DefaultColumnCount ==
    (lastOp # "new" /\ config.args.n = None) =>
        /\ lastOp # "TypeError"
        /\ lastOp = "init" => config.n = DocumentedN(config.args)
        /\ ( /\ config.args.header_texts = None /\ config.args.row_widgets = None
             /\ ~ BadShape(config.args)
             /\ config.args.initial # None => ~ BadInitial(config.args) )
           => lastOp = "init"

\* Some invocation of the callback by the operation s ended with is an EDIT
RaisedEdit(s) == \E k \in 1 .. Len(s.calls) : s.calls[k].action = "EDIT"

\* C19: the timer runs once the widget is constructed and closeEvent stops
\* it; once it is stopped it stays stopped, no poll runs and no EDIT is
\* raised, whatever content changes happen.
C19_NoPollAfterClose ==
    [][ /\ lastOp = "init" => timer_active
        /\ lastOp' = "close" => ~ timer_active'
        /\ (~ timer_active) =>
              (~ timer_active' /\ lastOp' # "poll" /\ ~ RaisedEdit(Self')) ]_vars

C19_Witness ==
    /\ ~ timer_active /\ lastOp = "edit" /\ NumRows >= 2
    /\ \E w \in DataWidgets : text[w] # baseline[w]

=============================================================================
